---- MODULE Spec2Model ----
(***************************************************************************)
(* The section-driven record manager of src/reference/app.tsx (the App      *)
(* component): its six pieces of React state, its event handlers and the    *)
(* continuations of its asynchronous handlers after each fetch resolves.    *)
(*                                                                          *)
(* One action is one macrotask of the browser's event loop: a user event    *)
(* with the synchronous prefix of its handler (up to the first await, and   *)
(* the effect React flushes for it), or the continuation of a handler once  *)
(* its fetch has settled.  A handler's closure keeps the activeSection and  *)
(* editingRecord of the render it was created in, so each pending call      *)
(* carries them.  Between `await fetch` and `await response.json()` a       *)
(* handler neither reads nor writes component state, so both awaits are     *)
(* folded into the one step in which the call settles.                      *)
(***************************************************************************)
EXTENDS Bags, FiniteSets, Integers, Sequences, TLC

VARIABLES
    showLanding,    \* useState(true), line 97
    activeSection,  \* useState('funding_opportunity'), line 98
    records,        \* useState([]), line 99
    loading,        \* useState(false), line 100
    dialogOpen,     \* useState(false), line 101
    editingRecord,  \* useState(null), line 102
    calls,          \* bag of fetch promises not yet settled, with their closures
    toasts,         \* what the last step sent to sonner's toast, in order
    lastReload,     \* history: the section of the most recent loadRecords call
    lastOp          \* history: the last step taken, its response, the call it issued

vars == <<showLanding, activeSection, records, loading, dialogOpen, editingRecord,
          calls, toasts, lastReload, lastOp>>

----------------------------------------------------------------------------
(* Bounds and value sets *)

\* At most this many fetches are pending at once.
MaxInFlight == 2

\* Two of the nine SectionType values; no handler distinguishes sections.
Sections == {"funding_opportunity", "grant"}

\* Ids the server assigns; unique within a category only.
RecordIds == {"r1"}

\* Values of the `error` field of a non-2xx body.
ErrorStrings == {"not found", ""}

None == <<>>
Some(x) == <<x>>

\* editingRecord's null.
Null == [id |-> "null", section |-> "null"]

\* A Record: its id, and `section` standing for the category-shaped fields.
Rec(section, id) == [id |-> id, section |-> section]

\* The lists a GET of {base}/{section} may carry in data.records.
ListsFor(section) == {<<>>} \cup {<<Rec(section, id)>> : id \in RecordIds}

----------------------------------------------------------------------------
(* The network: requests issued by fetch and the ways a fetch can settle *)

\* A pending fetch and the closure that awaits it: the handler, the request
\* (method, url as path segments after API_BASE) and the activeSection and
\* isEditing the handler captured when it was called.
Call(handler, method, url, section, isEditing) ==
    [handler |-> handler, method |-> method, url |-> url,
     section |-> section, isEditing |-> isEditing]

\* fetch(`${API_BASE}/${section}`) of loadRecords.
ListRequest(section) == Call("loadRecords", "GET", <<section>>, section, FALSE)

\* SaveRequest with the record's id left out of the url and the verb fixed:
\* every save is a POST on the collection.
SaveRequestAlwaysPost == Call("handleSave", "POST", <<activeSection>>, activeSection, FALSE)

\* The fetch of handleSave: PUT on the record's url when editingRecord is set,
\* POST on the collection otherwise, both under the captured activeSection.
SaveRequest ==
    LET isEditing == editingRecord # Null
    IN  Call("handleSave",
             IF isEditing THEN "PUT" ELSE "POST",
             IF isEditing THEN <<activeSection, editingRecord.id>> ELSE <<activeSection>>,
             activeSection, isEditing)

\* fetch(`${API_BASE}/${activeSection}/${id}`, DELETE) of handleDelete.
DeleteRequest(id) == Call("handleDelete", "DELETE", <<activeSection, id>>, activeSection, FALSE)

\* fetch(`${API_BASE}/upload`, POST) of handleFileUpload.
UploadRequest == Call("handleFileUpload", "POST", <<"upload">>, activeSection, FALSE)

\* How a fetch settles: it rejects (transport failure), or resolves with a
\* response that is ok (2xx) or not, whose body response.json() parses or
\* not, and whose parsed body may carry an `error` and a `records` field.
Response(rejects, ok, parses, error, recs) ==
    [rejects |-> rejects, ok |-> ok, parses |-> parses, error |-> error, records |-> recs]

Rejected == Response(TRUE, FALSE, FALSE, None, None)

NotOkResponses ==
    {Response(FALSE, FALSE, FALSE, None, None)}
    \cup {Response(FALSE, FALSE, TRUE, e, None) : e \in {None} \cup {Some(s) : s \in ErrorStrings}}

OkResponses(c) ==
    {Response(FALSE, TRUE, FALSE, None, None)}
    \cup IF c.handler = "loadRecords"
         THEN {Response(FALSE, TRUE, TRUE, None, r) :
                  r \in {None} \cup {Some(l) : l \in ListsFor(c.section)}}
         ELSE {Response(FALSE, TRUE, TRUE, None, None)}

Responses(c) == {Rejected} \cup NotOkResponses \cup OkResponses(c)

\* error.message of a rejected fetch (a TypeError of the browser).
NetworkErrorMessage == "Failed to fetch"

\* error.message of the SyntaxError response.json() throws on a bad body.
JsonErrorMessage == "Unexpected token"

\* The message of the Error the handler catches: `error.error || fallback`
\* for a parsed non-2xx body, the thrown error's own message otherwise.
ErrorMessage(resp, fallback) ==
    IF resp.rejects THEN NetworkErrorMessage
    ELSE IF ~resp.parses THEN JsonErrorMessage
    ELSE IF resp.error = None \/ resp.error[1] = "" THEN fallback
    ELSE resp.error[1]

\* loadRecords and handleFileUpload read the body of a 2xx response; a body
\* that does not parse throws inside them.
ReadFails(resp) == resp.rejects \/ ~resp.ok \/ ~resp.parses

\* handleSave and handleDelete test response.ok only and never read a 2xx body.
WriteFails(resp) == resp.rejects \/ ~resp.ok

----------------------------------------------------------------------------
(* The Feedback Channel: sonner's toast *)

Toast(kind, message) == [kind |-> kind, message |-> message]

LoadErrorToast(resp) ==
    Toast("error", "Failed to load records: " \o ErrorMessage(resp, "Failed to load records"))

SaveSuccessToast(isEditing) ==
    Toast("success", IF isEditing THEN "Record updated successfully"
                                  ELSE "Record created successfully")

SaveErrorToast(resp) ==
    Toast("error", "Failed to save record: " \o ErrorMessage(resp, "Failed to save record"))

DeleteSuccessToast == Toast("success", "Record deleted successfully")

\* DeleteErrorToast with the thrown message dropped for the generic label.
DeleteErrorToastGeneric(resp) ==
    Toast("error", "Failed to delete record: " \o "Failed to delete record")

DeleteErrorToast(resp) ==
    Toast("error", "Failed to delete record: " \o ErrorMessage(resp, "Failed to delete record"))

----------------------------------------------------------------------------
(* History of the last step *)

NoResponse == Response(FALSE, FALSE, FALSE, None, None)

Op(op, resp, confirmed, issued) ==
    [op |-> op, resp |-> resp, confirmed |-> confirmed, issued |-> issued]

Pending(handler) == {c \in BagToSet(calls) : c.handler = handler}

Issue(c) == calls (+) SetToBag({c})

Settle(c) == calls (-) SetToBag({c})

CanIssue == BagCardinality(calls) < MaxInFlight

----------------------------------------------------------------------------
(* Construction *)

\* The state after App has mounted: the initial useState values, and the
\* effect of the first render has called loadRecords('funding_opportunity').
Init ==
    /\ showLanding = TRUE
    /\ activeSection = "funding_opportunity"
    /\ records = <<>>
    /\ loading = TRUE
    /\ dialogOpen = FALSE
    /\ editingRecord = Null
    /\ calls = SetToBag({ListRequest("funding_opportunity")})
    /\ toasts = <<>>
    /\ lastReload = "funding_opportunity"
    /\ lastOp = Op("mount", NoResponse, FALSE, Some(ListRequest("funding_opportunity")))

----------------------------------------------------------------------------
(* User events.  The tabs, tables and dialog exist only while the landing *)
(* page is not shown (the early return of line 223).  App disables none of *)
(* them while the dialog is open or a call is pending, so every handler    *)
(* can be called in every such state.                                      *)

\* LandingPage onGetStarted.
onGetStarted ==
    /\ showLanding
    /\ showLanding' = FALSE
    /\ toasts' = <<>>
    /\ lastOp' = Op("onGetStarted", NoResponse, FALSE, None)
    /\ UNCHANGED <<activeSection, records, loading, dialogOpen, editingRecord, calls, lastReload>>

\* The Home button.
onHome ==
    /\ ~showLanding
    /\ showLanding' = TRUE
    /\ toasts' = <<>>
    /\ lastOp' = Op("onHome", NoResponse, FALSE, None)
    /\ UNCHANGED <<activeSection, records, loading, dialogOpen, editingRecord, calls, lastReload>>

\* Tabs onValueChange: setActiveSection(v); the render that follows runs the
\* effect on [activeSection], which calls loadRecords(v): setLoading(true)
\* and the GET.  Nothing else is written.
onValueChange(v) ==
    /\ ~showLanding
    /\ v # activeSection
    /\ CanIssue
    /\ activeSection' = v
    /\ loading' = TRUE
    /\ calls' = Issue(ListRequest(v))
    /\ lastReload' = v
    /\ toasts' = <<>>
    /\ lastOp' = Op("onValueChange", NoResponse, FALSE, Some(ListRequest(v)))
    /\ UNCHANGED <<showLanding, records, dialogOpen, editingRecord>>

\* openCreateDialog without setEditingRecord(null): the dialog opens on
\* whatever target an earlier session left behind.
openCreateDialogKeepingTarget ==
    /\ ~showLanding
    /\ dialogOpen' = TRUE
    /\ toasts' = <<>>
    /\ lastOp' = Op("openCreateDialog", NoResponse, FALSE, None)
    /\ UNCHANGED <<showLanding, activeSection, records, loading, editingRecord, calls,
                   lastReload>>

\* The "Add New" button.
openCreateDialog ==
    /\ ~showLanding
    /\ editingRecord' = Null
    /\ dialogOpen' = TRUE
    /\ toasts' = <<>>
    /\ lastOp' = Op("openCreateDialog", NoResponse, FALSE, None)
    /\ UNCHANGED <<showLanding, activeSection, records, loading, calls, lastReload>>

\* The rows of the table, each with its Edit and Delete button, are rendered
\* only when not loading and records is not empty (lines 292-341).
Rows == IF loading THEN {} ELSE {records[i] : i \in 1..Len(records)}

\* A row's Edit button.
openEditDialog(record) ==
    /\ ~showLanding
    /\ record \in Rows
    /\ editingRecord' = record
    /\ dialogOpen' = TRUE
    /\ toasts' = <<>>
    /\ lastOp' = Op("openEditDialog", NoResponse, FALSE, None)
    /\ UNCHANGED <<showLanding, activeSection, records, loading, calls, lastReload>>

\* The form's onCancel.
onCancel ==
    /\ ~showLanding
    /\ dialogOpen
    /\ dialogOpen' = FALSE
    /\ editingRecord' = Null
    /\ toasts' = <<>>
    /\ lastOp' = Op("onCancel", NoResponse, FALSE, None)
    /\ UNCHANGED <<showLanding, activeSection, records, loading, calls, lastReload>>

\* Dialog onOpenChange={setDialogOpen}: the dialog, which has no trigger,
\* reports only its dismissal (Escape, outside click, close button).
onOpenChange(open) ==
    /\ ~showLanding
    /\ dialogOpen
    /\ dialogOpen' = open
    /\ toasts' = <<>>
    /\ lastOp' = Op("onOpenChange", NoResponse, FALSE, None)
    /\ UNCHANGED <<showLanding, activeSection, records, loading, editingRecord, calls, lastReload>>

----------------------------------------------------------------------------
(* loadRecords, lines 108-131.  Its synchronous prefix (setLoading(true) and *)
(* the GET) is part of whichever step calls it; these are its continuations. *)

\* The fetch resolved ok and its body parsed: setRecords(data.records || []),
\* then the finally block.
loadSucceeded(c, resp) ==
    /\ ~ReadFails(resp)
    /\ records' = IF resp.records = None THEN <<>> ELSE resp.records[1]
    /\ loading' = FALSE
    /\ calls' = Settle(c)
    /\ toasts' = <<>>
    /\ lastOp' = Op("loadSucceeded", resp, FALSE, None)
    /\ UNCHANGED <<showLanding, activeSection, dialogOpen, editingRecord, lastReload>>

\* loadFailed with setLoading(false) at the end of the try block instead of
\* in a finally block: a failed load leaves loading set.
loadFailedStillLoading(c, resp) ==
    /\ ReadFails(resp)
    /\ records' = <<>>
    /\ calls' = Settle(c)
    /\ toasts' = <<LoadErrorToast(resp)>>
    /\ lastOp' = Op("loadFailed", resp, FALSE, None)
    /\ UNCHANGED <<showLanding, activeSection, loading, dialogOpen, editingRecord, lastReload>>

\* The catch block, then the finally block.
loadFailed(c, resp) ==
    /\ ReadFails(resp)
    /\ records' = <<>>
    /\ loading' = FALSE
    /\ calls' = Settle(c)
    /\ toasts' = <<LoadErrorToast(resp)>>
    /\ lastOp' = Op("loadFailed", resp, FALSE, None)
    /\ UNCHANGED <<showLanding, activeSection, dialogOpen, editingRecord, lastReload>>

----------------------------------------------------------------------------
(* handleSave, lines 133-162 *)

\* The form's onSave, up to `await fetch`.  The form is a child of the
\* DialogContent, so it exists while the dialog is open.
handleSave ==
    /\ ~showLanding
    /\ dialogOpen
    /\ CanIssue
    /\ calls' = Issue(SaveRequest)
    /\ toasts' = <<>>
    /\ lastOp' = Op("handleSave", NoResponse, FALSE, Some(SaveRequest))
    /\ UNCHANGED <<showLanding, activeSection, records, loading, dialogOpen, editingRecord,
                   lastReload>>

\* Lines 154-157: the success toast, setDialogOpen(false),
\* setEditingRecord(null) and loadRecords(activeSection), with the isEditing
\* and activeSection of the closure that issued the call.
saveSucceeded(c, resp) ==
    /\ ~WriteFails(resp)
    /\ dialogOpen' = FALSE
    /\ editingRecord' = Null
    /\ loading' = TRUE
    /\ calls' = Settle(c) (+) SetToBag({ListRequest(c.section)})
    /\ lastReload' = c.section
    /\ toasts' = <<SaveSuccessToast(c.isEditing)>>
    /\ lastOp' = Op("saveSucceeded", resp, FALSE, Some(ListRequest(c.section)))
    /\ UNCHANGED <<showLanding, activeSection, records>>

\* saveFailed with the cleanup of lines 155-156 run on failure too (as if it
\* sat in a finally block).
saveFailedClosing(c, resp) ==
    /\ WriteFails(resp)
    /\ dialogOpen' = FALSE
    /\ editingRecord' = Null
    /\ calls' = Settle(c)
    /\ toasts' = <<SaveErrorToast(resp)>>
    /\ lastOp' = Op("saveFailed", resp, FALSE, None)
    /\ UNCHANGED <<showLanding, activeSection, records, loading, lastReload>>

\* Lines 158-161: the catch block.
saveFailed(c, resp) ==
    /\ WriteFails(resp)
    /\ calls' = Settle(c)
    /\ toasts' = <<SaveErrorToast(resp)>>
    /\ lastOp' = Op("saveFailed", resp, FALSE, None)
    /\ UNCHANGED <<showLanding, activeSection, records, loading, dialogOpen, editingRecord,
                   lastReload>>

----------------------------------------------------------------------------
(* handleDelete, lines 164-186 *)

\* handleDelete with the result of confirm() ignored: the DELETE is sent
\* whatever the user answered.
handleDeleteUnconfirmed(id, confirmed) ==
    /\ ~showLanding
    /\ id \in {r.id : r \in Rows}
    /\ CanIssue
    /\ calls' = Issue(DeleteRequest(id))
    /\ lastOp' = Op("handleDelete", NoResponse, confirmed, Some(DeleteRequest(id)))
    /\ toasts' = <<>>
    /\ UNCHANGED <<showLanding, activeSection, records, loading, dialogOpen, editingRecord,
                   lastReload>>

\* A row's Delete button, up to `await fetch`: confirm() blocks; when it
\* returns false the handler returns at once.
handleDelete(id, confirmed) ==
    /\ ~showLanding
    /\ id \in {r.id : r \in Rows}
    /\ IF confirmed
       THEN /\ CanIssue
            /\ calls' = Issue(DeleteRequest(id))
            /\ lastOp' = Op("handleDelete", NoResponse, TRUE, Some(DeleteRequest(id)))
       ELSE /\ calls' = calls
            /\ lastOp' = Op("handleDelete", NoResponse, FALSE, None)
    /\ toasts' = <<>>
    /\ UNCHANGED <<showLanding, activeSection, records, loading, dialogOpen, editingRecord,
                   lastReload>>

\* deleteSucceeded with an optimistic local patch: the deleted record is
\* filtered out of records before the reload.
deleteSucceededPatching(c, resp) ==
    /\ ~WriteFails(resp)
    /\ records' = SelectSeq(records, LAMBDA r : r.id # c.url[2])
    /\ loading' = TRUE
    /\ calls' = Settle(c) (+) SetToBag({ListRequest(c.section)})
    /\ lastReload' = c.section
    /\ toasts' = <<DeleteSuccessToast>>
    /\ lastOp' = Op("deleteSucceeded", resp, FALSE, Some(ListRequest(c.section)))
    /\ UNCHANGED <<showLanding, activeSection, dialogOpen, editingRecord>>

\* Lines 180-181: the success toast and loadRecords(activeSection) of the
\* closure that issued the call.
deleteSucceeded(c, resp) ==
    /\ ~WriteFails(resp)
    /\ loading' = TRUE
    /\ calls' = Settle(c) (+) SetToBag({ListRequest(c.section)})
    /\ lastReload' = c.section
    /\ toasts' = <<DeleteSuccessToast>>
    /\ lastOp' = Op("deleteSucceeded", resp, FALSE, Some(ListRequest(c.section)))
    /\ UNCHANGED <<showLanding, activeSection, records, dialogOpen, editingRecord>>

\* Lines 182-185: the catch block.
deleteFailed(c, resp) ==
    /\ WriteFails(resp)
    /\ calls' = Settle(c)
    /\ toasts' = <<DeleteErrorToast(resp)>>
    /\ lastOp' = Op("deleteFailed", resp, FALSE, None)
    /\ UNCHANGED <<showLanding, activeSection, records, loading, dialogOpen, editingRecord,
                   lastReload>>

----------------------------------------------------------------------------
(* handleFileUpload, lines 188-207 *)

\* The form's onFileUpload, up to `await fetch`.
handleFileUpload ==
    /\ ~showLanding
    /\ dialogOpen
    /\ CanIssue
    /\ calls' = Issue(UploadRequest)
    /\ toasts' = <<>>
    /\ lastOp' = Op("handleFileUpload", NoResponse, FALSE, Some(UploadRequest))
    /\ UNCHANGED <<showLanding, activeSection, records, loading, dialogOpen, editingRecord,
                   lastReload>>

\* Lines 205-206: the promise resolves to {url, fileName} for the form.
uploadReturned(c, resp) ==
    /\ ~ReadFails(resp)
    /\ calls' = Settle(c)
    /\ toasts' = <<>>
    /\ lastOp' = Op("uploadReturned", resp, FALSE, None)
    /\ UNCHANGED <<showLanding, activeSection, records, loading, dialogOpen, editingRecord,
                   lastReload>>

\* uploadThrew with a catch block that gives up the session: the dialog is
\* closed and the target dropped when the upload fails.
uploadThrewClosing(c, resp) ==
    /\ ReadFails(resp)
    /\ dialogOpen' = FALSE
    /\ editingRecord' = Null
    /\ calls' = Settle(c)
    /\ toasts' = <<>>
    /\ lastOp' = Op("uploadThrew", resp, FALSE, None)
    /\ UNCHANGED <<showLanding, activeSection, records, loading, lastReload>>

\* No try/catch: a rejected fetch, the throw of line 202 or a body that does
\* not parse rejects the promise the form holds.
uploadThrew(c, resp) ==
    /\ ReadFails(resp)
    /\ calls' = Settle(c)
    /\ toasts' = <<>>
    /\ lastOp' = Op("uploadThrew", resp, FALSE, None)
    /\ UNCHANGED <<showLanding, activeSection, records, loading, dialogOpen, editingRecord,
                   lastReload>>

----------------------------------------------------------------------------
(* The component *)

Next ==
    \/ onGetStarted
    \/ onHome
    \/ \E v \in Sections : onValueChange(v)
    \/ openCreateDialog
    \/ \E record \in Rows : openEditDialog(record)
    \/ onCancel
    \/ onOpenChange(FALSE)
    \/ handleSave
    \/ \E r \in Rows, confirmed \in BOOLEAN : handleDelete(r.id, confirmed)
    \/ handleFileUpload
    \/ \E c \in Pending("loadRecords") : \E resp \in Responses(c) : loadSucceeded(c, resp)
    \/ \E c \in Pending("loadRecords") : \E resp \in Responses(c) : loadFailed(c, resp)
    \/ \E c \in Pending("handleSave") : \E resp \in Responses(c) : saveSucceeded(c, resp)
    \/ \E c \in Pending("handleSave") : \E resp \in Responses(c) : saveFailed(c, resp)
    \/ \E c \in Pending("handleDelete") : \E resp \in Responses(c) : deleteSucceeded(c, resp)
    \/ \E c \in Pending("handleDelete") : \E resp \in Responses(c) : deleteFailed(c, resp)
    \/ \E c \in Pending("handleFileUpload") : \E resp \in Responses(c) : uploadReturned(c, resp)
    \/ \E c \in Pending("handleFileUpload") : \E resp \in Responses(c) : uploadThrew(c, resp)

Spec == Init /\ [][Next]_vars

\* A pending fetch of each handler settles: the network answers or fails.
loadSettles ==
    \E c \in Pending("loadRecords") : \E resp \in Responses(c) :
        loadSucceeded(c, resp) \/ loadFailed(c, resp)

saveSettles ==
    \E c \in Pending("handleSave") : \E resp \in Responses(c) :
        saveSucceeded(c, resp) \/ saveFailed(c, resp)

deleteSettles ==
    \E c \in Pending("handleDelete") : \E resp \in Responses(c) :
        deleteSucceeded(c, resp) \/ deleteFailed(c, resp)

uploadSettles ==
    \E c \in Pending("handleFileUpload") : \E resp \in Responses(c) :
        uploadReturned(c, resp) \/ uploadThrew(c, resp)

\* The steps the user takes.
userEvent ==
    \/ onGetStarted
    \/ onHome
    \/ \E v \in Sections : onValueChange(v)
    \/ openCreateDialog
    \/ \E record \in Rows : openEditDialog(record)
    \/ onCancel
    \/ onOpenChange(FALSE)
    \/ handleSave
    \/ \E r \in Rows, confirmed \in BOOLEAN : handleDelete(r.id, confirmed)
    \/ handleFileUpload

\* The component with a network in which no fetch stays pending for ever:
\* there is no cancellation and every call runs to completion.
FairSpec ==
    /\ Spec
    /\ WF_vars(loadSettles)
    /\ WF_vars(saveSettles)
    /\ WF_vars(deleteSettles)
    /\ WF_vars(uploadSettles)

----------------------------------------------------------------------------
(* The spec's vocabulary, read off the component's state *)

\* The Edit Session's mode: the dialog is closed, or open on no record
\* (the title reads 'Create New'), or open on editingRecord ('Edit').
mode ==
    IF ~dialogOpen THEN "Closed"
    ELSE IF editingRecord = Null THEN "Creating"
    ELSE "Editing"

\* The RecordSet: all the component keeps of a load is records and loading;
\* the catch block of loadRecords stores no error.
RecordSet == [records |-> records, isLoading |-> loading]

----------------------------------------------------------------------------
(* Claims *)

\* C1: once no list call is pending, the records held are those of the
\* section of the latest reload issued, never those of an earlier reload
\* whose call resolved late.
C1_LatestReloadWins ==
    Pending("loadRecords") = {} =>
        \A i \in 1..Len(records) : records[i].section = lastReload

\* C2: after a save succeeds the session is Closed with no target and the
\* step has issued a reload for the active category.
C2_SaveSuccessClosesAndReloadsActive ==
    lastOp.op = "saveSucceeded" =>
        /\ mode = "Closed"
        /\ editingRecord = Null
        /\ lastOp.issued = Some(ListRequest(activeSection))

C4_SectionSwitchClosesSession ==
    lastOp.op = "onValueChange" => mode = "Closed"

\* C5: a delete whose confirmation was declined issues no call, emits no
\* notification and changes nothing, and a DELETE call is only ever issued
\* by a delete request whose confirmation was affirmed.
C5_NoDeleteWithoutConfirmation ==
    [][/\ (lastOp'.op = "handleDelete" /\ ~lastOp'.confirmed) =>
              /\ calls' = calls
              /\ toasts' = <<>>
              /\ UNCHANGED <<showLanding, activeSection, records, loading, dialogOpen,
                             editingRecord, lastReload>>
       /\ \A c \in BagToSet(calls') :
              (c.method = "DELETE" /\ CopiesIn(c, calls') > CopiesIn(c, calls)) =>
                  (lastOp'.op = "handleDelete" /\ lastOp'.confirmed)]_vars

C5_Witness ==
    /\ lastOp.op = "handleDelete"
    /\ ~lastOp.confirmed
    /\ Pending("handleDelete") = {}

\* C6: the session carries a target if and only if its mode is Editing.
C6_TargetIffEditing ==
    (editingRecord # Null) <=> (mode = "Editing")

\* C7: a reload that received an empty list leaves records empty and not
\* loading, and a reload that failed leaves records empty and not loading
\* in a RecordSet that differs from the one an empty list leaves.
C7_FailedLoadDistinguishable ==
    /\ (lastOp.op = "loadSucceeded" /\ lastOp.resp.records = Some(<<>>)) =>
           RecordSet = [records |-> <<>>, isLoading |-> FALSE]
    /\ lastOp.op = "loadFailed" =>
           /\ records = <<>>
           /\ ~loading
           /\ RecordSet # [records |-> <<>>, isLoading |-> FALSE]

\* C8 as stated: when a delete is rejected with a body carrying an error
\* string, the error notification's message is that string and no more.
C8_MessageIsErrorString ==
    (/\ lastOp.op = "deleteFailed"
     /\ lastOp.resp.parses
     /\ lastOp.resp.error # None
     /\ lastOp.resp.error # Some("")) =>
        toasts = <<Toast("error", lastOp.resp.error[1])>>

\* C8 as amended: the message is "Failed to delete record: " followed by
\* the body's error string.
C8_MessageIsPrefixedErrorString ==
    (/\ lastOp.op = "deleteFailed"
     /\ lastOp.resp.parses
     /\ lastOp.resp.error # None
     /\ lastOp.resp.error # Some("")) =>
        toasts = <<Toast("error", "Failed to delete record: " \o lastOp.resp.error[1])>>

C8_Witness ==
    /\ lastOp.op = "deleteFailed"
    /\ lastOp.resp.error = Some("not found")
    /\ toasts = <<Toast("error", "Failed to delete record: not found")>>

\* C9: a save issues exactly one call: from Creating a POST on the active
\* category's collection, from Editing a PUT on the active category
\* addressed by the id of the record being edited.
C9_SaveVerbFollowsSession ==
    [][lastOp'.op = "handleSave" =>
          \E c \in BagToSet(calls') :
              /\ calls' = calls (+) SetToBag({c})
              /\ mode = "Creating" => (c.method = "POST" /\ c.url = <<activeSection>>)
              /\ mode = "Editing" =>
                     (c.method = "PUT" /\ c.url = <<activeSection, editingRecord.id>>)
              /\ mode # "Closed"]_vars

C9_Witness ==
    /\ lastOp.op = "handleSave"
    /\ mode = "Editing"
    /\ \E c \in Pending("handleSave") : c.method = "PUT"

\* C10: a delete that succeeds emits a success notification and issues a
\* reload of the active category; a delete that fails emits one error
\* notification, issues no reload and leaves records and loading as they were.
C10_DeleteReloadsActiveOrNothing ==
    [][/\ lastOp'.op = "deleteSucceeded" =>
              /\ Len(toasts') = 1
              /\ toasts'[1].kind = "success"
              /\ lastOp'.issued = Some(ListRequest(activeSection'))
       /\ lastOp'.op = "deleteFailed" =>
              /\ Len(toasts') = 1
              /\ toasts'[1].kind = "error"
              /\ lastOp'.issued = None
              /\ UNCHANGED <<records, loading>>]_vars


\* C11: every step in which a save, a delete or an upload fails emits an
\* error notification.
C11_EveryFailureNotifies ==
    lastOp.op \in {"saveFailed", "deleteFailed", "uploadThrew"} =>
        \E i \in 1..Len(toasts) : toasts[i].kind = "error"


\* C12: no step of an upload (its call, its return, its failure) changes the
\* session, the active category, records or loading; an upload returns a
\* result only for a response that did not fail, and a failed one throws
\* to the caller.
C12_UploadLeavesStateAlone ==
    [][/\ lastOp'.op \in {"handleFileUpload", "uploadReturned", "uploadThrew"} =>
              UNCHANGED <<dialogOpen, editingRecord, activeSection, records, loading>>
       /\ lastOp'.op = "uploadReturned" => ~ReadFails(lastOp'.resp)
       /\ lastOp'.op = "uploadThrew" => ReadFails(lastOp'.resp)]_vars

C12_Witness ==
    /\ lastOp.op = "uploadThrew"
    /\ mode = "Editing"
    /\ records # <<>>


\* C13: while a session stays open (no openCreate or openEdit starting a new
\* one) the active category does not change, so it is the category the
\* session was opened in, and a save from an Editing session addresses the
\* active category with the id of a record of that category.
C13_SaveStaysInOpeningCategory ==
    [][/\ (/\ mode # "Closed"
           /\ mode' # "Closed"
           /\ lastOp'.op \notin {"openCreateDialog", "openEditDialog"}) =>
              activeSection' = activeSection
       /\ (lastOp'.op = "handleSave" /\ mode = "Editing") =>
              editingRecord.section = activeSection]_vars


\* C14: records changes only in the step in which a list call resolves, and
\* then to the list the server sent or, when the call fails or carries no
\* list, to the empty list; no other step writes records.
C14_RecordsOnlyFromListReads ==
    [][records' # records =>
          \/ /\ lastOp'.op = "loadSucceeded"
             /\ lastOp'.resp.records \in {None, Some(records')}
             /\ lastOp'.resp.records = None => records' = <<>>
          \/ /\ lastOp'.op = "loadFailed"
             /\ records' = <<>>]_vars

C14_Witness ==
    /\ lastOp.op = "deleteSucceeded"
    /\ records # <<>>
    /\ \E c \in Pending("loadRecords") : TRUE


\* C15: when every pending call eventually settles, then unless the user
\* goes on acting for ever, a state is reached, again and again, in which
\* no list call is pending and loading is false.
C15_ReloadsComplete ==
    \/ []<>(Pending("loadRecords") = {} /\ ~loading)
    \/ []<><<userEvent>>_vars

C15_Witness ==
    /\ lastOp.op = "loadFailed"
    /\ Pending("loadRecords") = {}
    /\ ~loading


\* C16: loading is true in every state in which a list call for the active
\* category is still pending.
C16_LoadingWhileActiveReloadPending ==
    (\E c \in Pending("loadRecords") : c.section = activeSection) => loading

\* C17: a save's success closes only the session it was submitted from.
\* A save submitted from a Creating session whose success arrives while the
\* session is Editing, or submitted from an Editing session and arriving
\* while the session is Creating, meets a session opened after it, and
\* leaves that session open with its target.
C17_LateSuccessSparesNewSession ==
    [][\A c \in Pending("handleSave") :
          (/\ lastOp'.op = "saveSucceeded"
           /\ calls' = Settle(c) (+) SetToBag({ListRequest(c.section)})
           /\ mode = (IF c.isEditing THEN "Creating" ELSE "Editing")) =>
              /\ dialogOpen' = dialogOpen
              /\ editingRecord' = editingRecord]_vars

\* C18: once no list call is pending, records that came from the latest
\* reload issued (not from a stale earlier one) are records of the active
\* category, also when that reload was issued by the success of a save or
\* delete that was pending while the category was switched.
C18_ReloadAfterSwitchKeepsActive ==
    (/\ Pending("loadRecords") = {}
     /\ records # <<>>
     /\ \A i \in 1..Len(records) : records[i].section = lastReload) =>
        \A i \in 1..Len(records) : records[i].section = activeSection


\* C19: while the create call of a save submitted from a Creating session is
\* still pending, a second save from the same session (the very next step,
\* so no session was closed or opened in between) issues no call.
C19_NoSecondCreateWhilePending ==
    [][(/\ lastOp.op = "handleSave"
        /\ mode = "Creating"
        /\ lastOp.issued # None
        /\ BagIn(lastOp.issued[1], calls)
        /\ lastOp'.op = "handleSave") =>
           calls' = calls]_vars

\* C20: openCreate opens the session with no target whatever the target was
\* before; a session without target gets one only by openEdit; and a save
\* from a session without target issues a POST on the collection, never a
\* PUT.
C20_CreateSessionAlwaysPosts ==
    [][/\ lastOp'.op = "openCreateDialog" => (dialogOpen' /\ editingRecord' = Null)
       /\ (editingRecord = Null /\ lastOp'.op # "openEditDialog") => editingRecord' = Null
       /\ (lastOp'.op = "handleSave" /\ editingRecord = Null) =>
              /\ lastOp'.issued # None
              /\ lastOp'.issued[1].method = "POST"
              /\ Len(lastOp'.issued[1].url) = 1
              /\ BagIn(lastOp'.issued[1], calls')]_vars

C20_Witness ==
    /\ lastOp.op = "handleSave"
    /\ mode = "Creating"
    /\ \E c \in Pending("handleSave") : c.method = "PUT"
    /\ \E c \in Pending("handleSave") : c.method = "POST"

====
